---- MODULE Spec2Model ----
(***************************************************************************)
(* IV spike notifier: the market feed (app/data_simulator.py), the         *)
(* detector (app/detector.py), the pricing helpers (app/iv_calculator.py), *)
(* the notification manager (app/notifier.py) and the scanning loop of     *)
(* app/main.py, as one state machine.                                      *)
(*                                                                         *)
(* Units.  An IV is an integer number of thousandths of a percent point    *)
(* (20.0 % = 20000); a quote carries it rounded to two decimals, i.e. to a *)
(* multiple of 10.  A relative change is in thousandths (-150 = -15 %).    *)
(* Money is in hundredths (last_price 10.00 = 1000); a strike is a whole   *)
(* number and is scaled by 100 where it meets a price.  A volatility is in *)
(* ten-thousandths (0.0001 = 1), a delta in hundredths (0.38 = 38).        *)
(***************************************************************************)
EXTENDS Integers, Sequences, FiniteSets, TLC

VARIABLES
    previous_ivs,   \* DataSimulator.previous_ivs: option key -> last IV
    initialized,    \* DataSimulator.initialized
    pc,             \* position of monitor_iv_spikes: "idle", "fetched", "done"
    running,        \* number of monitor_iv_spikes executions in progress
    options_data,   \* monitor_iv_spikes' local: the quotes of this cycle
    spikes,         \* monitor_iv_spikes' local: what detect_spikes returned
    cycle_log,      \* which log line closed the latest cycle
    prior,          \* history: previous_ivs as it was when the cycle's fetch began
    planned,        \* history: the option keys the latest fetch selected
    written,        \* history: the option keys the latest fetch stored
    channels,       \* NotificationManager.channels, in list order
    sent_count,     \* NotificationManager.sent_count
    failed_count,   \* NotificationManager.failed_count
    attempts,       \* history: the latest send_notification's channel attempts
    attempt_count,  \* history: channel attempts made so far
    calls,          \* history: send_notification calls made so far
    last_result,    \* what the latest notifier call returned: "true", "false", "raise"
    lifespan,       \* "starting" (before test_notifications) or "serving"
    stats,          \* <<what the latest /stats request read>>, <<>> when none is held
    emitted,        \* history: the alerts the latest cycle's dispatch was given
    handed,         \* history: the hand-offs to channels of the cycle in progress
    recent,         \* <<what the latest /recent-spikes request read>>, <<>> when none is held
    calc            \* <<the latest application of a pricing function>>, <<>> when none

vars == <<previous_ivs, initialized, pc, running, options_data, spikes, cycle_log,
          prior, planned, written, channels, sent_count, failed_count, attempts,
          attempt_count, calls, last_result, lifespan, stats, emitted, handed,
          recent, calc>>

feed_vars == <<previous_ivs, initialized, prior, planned, written>>
cycle_vars == <<pc, running, options_data, spikes, cycle_log>>
notifier_vars == <<channels, sent_count, failed_count, attempts, attempt_count,
                   calls, last_result>>
history_vars == <<emitted, handed>>
query_vars == <<recent, calc>>

\* implied_volatility's None, apart from every volatility
None == -1

\* no /stats response is held
NoStats == <<>>

Max(a, b) == IF a >= b THEN a ELSE b
Min(a, b) == IF a <= b THEN a ELSE b
Abs(a) == IF a >= 0 THEN a ELSE -a

EmptyMap == [k \in {} |-> 0]
Put(f, k, v) == [x \in DOMAIN f \cup {k} |-> IF x = k THEN v ELSE f[x]]

(***************************************************************************)
(* Configuration (app/config.py).  The model monitors one symbol with a    *)
(* one-strike ladder; the expiry list is the configured one.               *)
(***************************************************************************)
IV_SPIKE_THRESHOLD_PERCENT == 10

SYMBOLS_TO_MONITOR == <<"SENSEX">>

STRIKE_RANGES == [s \in {"SENSEX"} |-> <<70000>>]

EXPIRY_DATES == <<"2025-06-12", "2025-06-19", "2025-06-26", "2025-07-24">>

OPTION_TYPES == <<"CE", "PE">>

\* the draws of the random module the model explores: per loop iteration the
\* initial noise, the change_percent of the walk, last_price, volume and oi
Draws ==
    { [noise |-> -5000, change |-> -150, last_price |-> 1000, volume |-> 100, oi |-> 1000],
      [noise |-> -5000, change |-> 0, last_price |-> 50000, volume |-> 10000, oi |-> 50000] }

(***************************************************************************)
(* app/data_simulator.py                                                   *)
(***************************************************************************)
generate_option_key(symbol, strike, expiry, option_type) ==
    <<symbol, strike, expiry, option_type>>

get_base_iv(symbol) ==
    CASE symbol = "NIFTY" -> 20000
      [] symbol = "BANKNIFTY" -> 25000
      [] symbol = "FINNIFTY" -> 22000
      [] symbol = "SENSEX" -> 18000
      [] symbol = "RELIANCE" -> 28000
      [] symbol = "TCS" -> 24000
      [] symbol = "HDFCBANK" -> 26000
      [] symbol = "INFY" -> 30000
      [] OTHER -> 25000

\* round(x, 2) on an IV: to the nearest multiple of 10, ties to even
round2(x) ==
    LET q == x \div 10
        r == x % 10
    IN  IF r < 5 THEN 10 * q
        ELSE IF r > 5 THEN 10 * (q + 1)
        ELSE IF q % 2 = 0 THEN 10 * q ELSE 10 * (q + 1)

\* the walk without its clamp
simulate_iv_change_unclamped(current_iv, symbol, change) ==
    (current_iv * (1000 + change)) \div 1000

\* _simulate_iv_change, with the drawn change_percent as `change`
simulate_iv_change(current_iv, symbol, change) ==
    LET new_iv == (current_iv * (1000 + change)) \div 1000
        min_iv == (get_base_iv(symbol) * 5) \div 10
        max_iv == (get_base_iv(symbol) * 25) \div 10
    IN  Max(min_iv, Min(max_iv, new_iv))

\* the value stored on a first observation: max(5.0, base_iv + noise)
seed_iv(symbol, noise) == Max(5000, get_base_iv(symbol) + noise)

\* random.sample(ladder, min(10, len(ladder))): the sequences of k distinct strikes
MaxStrikesPerCycle == 10

Samples(ladder) ==
    LET k == Min(MaxStrikesPerCycle, Len(ladder))
    IN  { s \in [1..k -> {ladder[i] : i \in 1..Len(ladder)}] :
            \A i, j \in 1..k : i # j => s[i] # s[j] }

first_expiries == SubSeq(EXPIRY_DATES, 1, Min(2, Len(EXPIRY_DATES)))

\* the option keys of one symbol's part of the loop, in loop order
RECURSIVE strike_keys(_, _, _)
strike_keys(symbol, strikes, n) ==
    IF n = 0 THEN <<>>
    ELSE strike_keys(symbol, strikes, n - 1) \o
         << generate_option_key(symbol, strikes[n], first_expiries[1], OPTION_TYPES[1]),
            generate_option_key(symbol, strikes[n], first_expiries[1], OPTION_TYPES[2]),
            generate_option_key(symbol, strikes[n], first_expiries[2], OPTION_TYPES[1]),
            generate_option_key(symbol, strikes[n], first_expiries[2], OPTION_TYPES[2]) >>

\* the option keys of the whole loop for the strikes sampled per symbol
RECURSIVE fetch_plan(_, _)
fetch_plan(sample, n) ==
    IF n = 0 THEN <<>>
    ELSE LET symbol == SYMBOLS_TO_MONITOR[n]
         IN  fetch_plan(sample, n - 1) \o
             (IF symbol \in DOMAIN STRIKE_RANGES
                THEN strike_keys(symbol, sample[symbol], Len(sample[symbol]))
                ELSE <<>>)

SampleChoices ==
    { f \in [DOMAIN STRIKE_RANGES -> UNION { Samples(STRIKE_RANGES[s]) : s \in DOMAIN STRIKE_RANGES }] :
        \A s \in DOMAIN STRIKE_RANGES : f[s] \in Samples(STRIKE_RANGES[s]) }

Plans == { fetch_plan(f, Len(SYMBOLS_TO_MONITOR)) : f \in SampleChoices }

\* the body of the innermost loop of fetch_option_data, iterations 1..n:
\* the IV state map and the quotes appended so far
RECURSIVE fetch_loop(_, _, _, _, _)
fetch_loop(ivs, init, plan, draw, n) ==
    IF n = 0 THEN [ivs |-> ivs, data |-> <<>>]
    ELSE LET before == fetch_loop(ivs, init, plan, draw, n - 1)
             option_key == plan[n]
             symbol == option_key[1]
             d == draw[n]
             seeded == IF ~init \/ option_key \notin DOMAIN before.ivs
                         THEN Put(before.ivs, option_key, seed_iv(symbol, d.noise))
                         ELSE before.ivs
             current_iv == seeded[option_key]
             new_iv == simulate_iv_change(current_iv, symbol, d.change)
             option_data == [symbol |-> symbol,
                             strike |-> option_key[2],
                             expiry |-> option_key[3],
                             option_type |-> option_key[4],
                             iv |-> round2(new_iv),
                             last_price |-> d.last_price,
                             price |-> d.last_price,
                             volume |-> d.volume,
                             oi |-> d.oi]
         IN  [ivs |-> Put(seeded, option_key, new_iv),
              data |-> Append(before.data, option_data)]

KeysOf(plan, n) == { plan[i] : i \in 1..n }


(***************************************************************************)
(* app/iv_calculator.py.  The closed form for T > 0 needs log, exp and the *)
(* normal distribution; where the code evaluates it, the model takes the   *)
(* value as an input, in a record of numerics: `price_lo` and `price_hi`   *)
(* are the closed-form price at both ends of the volatility bracket,       *)
(* `solve` is what the root-finder returns when the objective changes sign *)
(* over the bracket (a volatility, or None when it does not converge),     *)
(* `cdf` is norm.cdf(d1).  Every branch that decides without them is       *)
(* computed.                                                               *)
(***************************************************************************)
SigmaLo == 1
SigmaHi == 50000
\* option_delta raised, apart from every delta
Raise == 1000

\* the price at expiry without its floor at zero
black_scholes_price_unfloored(S, K, T, r, sigma, option_type, closed) ==
    IF T <= 0
      THEN IF option_type = "call" THEN S - K ELSE K - S
      ELSE closed

\* black_scholes_price: the intrinsic value for T <= 0; for T > 0 the value
\* `closed` of the closed form at these arguments
black_scholes_price(S, K, T, r, sigma, option_type, closed) ==
    IF T <= 0
      THEN IF option_type = "call" THEN Max(0, S - K) ELSE Max(0, K - S)
      ELSE closed

\* math.log(S / K) and the division by sigma * sqrt(T) are defined
closed_form_defined(S, K, T) == K # 0 /\ S # 0 /\ (S > 0) = (K > 0) /\ T > 0

\* brentq(objective, 0.0001, 5.0) from the objective's values at both ends
brentq(f_lo, f_hi, solve) ==
    IF f_lo = 0 THEN SigmaLo
    ELSE IF f_hi = 0 THEN SigmaHi
    ELSE IF (f_lo > 0) = (f_hi > 0) THEN None
    ELSE solve

\* implied_volatility with the lower end of the bracket returned in place of None
implied_volatility_clamped(market_price, S, K, T, r, option_type, num) ==
    LET found == IF T > 0 /\ ~closed_form_defined(S, K, T) THEN None
                 ELSE brentq(black_scholes_price(S, K, T, r, SigmaLo, option_type,
                                                 num.price_lo) - market_price,
                             black_scholes_price(S, K, T, r, SigmaHi, option_type,
                                                 num.price_hi) - market_price,
                             num.solve)
    IN  IF found = None THEN SigmaLo ELSE found

\* implied_volatility: any exception of the objective or of brentq gives None
implied_volatility(market_price, S, K, T, r, option_type, num) ==
    IF T > 0 /\ ~closed_form_defined(S, K, T) THEN None
    ELSE brentq(black_scholes_price(S, K, T, r, SigmaLo, option_type,
                                    num.price_lo) - market_price,
                black_scholes_price(S, K, T, r, SigmaHi, option_type,
                                    num.price_hi) - market_price,
                num.solve)

option_delta(S, K, T, r, sigma, option_type, cdf) ==
    IF ~closed_form_defined(S, K, T) THEN Raise
    ELSE IF option_type = "call" THEN cdf ELSE -(100 - cdf)

(***************************************************************************)
(* app/detector.py                                                         *)
(***************************************************************************)
DELTA_LOW == 38
DELTA_HIGH == 42

\* filter_options_by_delta over options[1..n]; numerics[i] holds the inputs
\* `solve` and `cdf` for options[i].  raised: an exception left the loop.
RECURSIVE filter_loop(_, _, _, _, _, _)
filter_loop(options, S, T, r, numerics, n) ==
    IF n = 0 THEN [raised |-> FALSE, filtered |-> <<>>]
    ELSE LET before == filter_loop(options, S, T, r, numerics, n - 1)
             opt == options[n]
             iv == implied_volatility(opt.last_price, S, 100 * opt.strike, T, r,
                                      opt.option_type, numerics[n])
             delta == option_delta(S, 100 * opt.strike, T, r, iv, opt.option_type,
                                   numerics[n].cdf)
         IN  IF before.raised THEN before
             ELSE IF iv = None THEN before
             ELSE IF delta = Raise THEN [raised |-> TRUE, filtered |-> <<>>]
             ELSE IF DELTA_LOW <= Abs(delta) /\ Abs(delta) <= DELTA_HIGH
               THEN [raised |-> FALSE,
                     filtered |-> Append(before.filtered,
                         [symbol |-> opt.symbol, strike |-> opt.strike,
                          expiry |-> opt.expiry, option_type |-> opt.option_type,
                          iv |-> iv, last_price |-> opt.last_price,
                          price |-> opt.price, volume |-> opt.volume,
                          oi |-> opt.oi, delta |-> delta])]
             ELSE before

\* the filter with its result newest first
filter_options_by_delta_reversed(options, S, T, r, numerics) ==
    LET res == filter_loop(options, S, T, r, numerics, Len(options))
    IN  [raised |-> res.raised,
         filtered |-> [j \in 1..Len(res.filtered) |->
                         res.filtered[Len(res.filtered) + 1 - j]]]

filter_options_by_delta(options, S, T, r, numerics) ==
    filter_loop(options, S, T, r, numerics, Len(options))

NoNumerics(options) ==
    [i \in 1..Len(options) |-> [price_lo |-> 0, price_hi |-> 0, solve |-> None, cdf |-> 0]]

\* a detector that passes every quote on
detect_spikes_unfiltered(options) == [raised |-> FALSE, filtered |-> options]

\* detect_spikes with a spot, a time to expiry and a rate in place of the
\* placeholders, on quotes whose delta comes out at 0.40
detect_spikes_with_context(options) ==
    filter_options_by_delta(options, 7020000, 7, 6,
        [i \in 1..Len(options) |->
           [price_lo |-> 0, price_hi |-> 1890000, solve |-> 2000, cdf |-> 60]])

\* detect_spikes: the filter with the placeholder context S = 0, T = 0, r = 0
detect_spikes(options) ==
    filter_options_by_delta(options, 0, 0, 0, NoNumerics(options))

\* the dataclass IVSpikeAlert; change_percent is in thousandths of a percent
IVSpikeAlert(symbol, strike, expiry, option_type, old_iv, new_iv, change_percent, timestamp) ==
    [symbol |-> symbol, strike |-> strike, expiry |-> expiry, option_type |-> option_type,
     old_iv |-> old_iv, new_iv |-> new_iv, change_percent |-> change_percent,
     timestamp |-> timestamp]

get_recent_spikes(limit) == <<>>

(***************************************************************************)
(* app/notifier.py                                                         *)
(***************************************************************************)
\* what send_message of a channel can do: return True, return False, raise
send_outcomes(kind) ==
    CASE kind = "telegram" -> {"true", "false"}
      [] kind = "console" -> {"true", "raise"}
      [] OTHER -> {"true", "false", "raise"}

Outcomes(chs) ==
    { o \in [1..Len(chs) -> {"true", "false", "raise"}] :
        \A i \in 1..Len(chs) : o[i] \in send_outcomes(chs[i]) }

\* NotificationManager.__init__: Telegram when configured, then the console
initial_channels(telegram_configured) ==
    IF telegram_configured THEN <<"telegram", "console">> ELSE <<"console">>

\* the loop with a raising channel left uncounted
RECURSIVE notify_loop_miscount(_, _, _)
notify_loop_miscount(chs, outcome, n) ==
    IF n = 0 THEN [raised |-> FALSE, success |-> FALSE, sent |-> 0, failed |-> 0, log |-> <<>>]
    ELSE LET before == notify_loop_miscount(chs, outcome, n - 1)
             log == Append(before.log, [channel |-> n, outcome |-> outcome[n]])
         IN  IF outcome[n] = "true"
               THEN [raised |-> FALSE, success |-> TRUE, sent |-> before.sent + 1,
                     failed |-> before.failed, log |-> log]
             ELSE IF outcome[n] = "false"
               THEN [raised |-> FALSE, success |-> before.success, sent |-> before.sent,
                     failed |-> before.failed + 1, log |-> log]
             ELSE [raised |-> FALSE, success |-> before.success, sent |-> before.sent,
                   failed |-> before.failed, log |-> log]

\* the loop left at the first channel that raises, the exception passed on
RECURSIVE notify_loop_unguarded(_, _, _)
notify_loop_unguarded(chs, outcome, n) ==
    IF n = 0 THEN [raised |-> FALSE, success |-> FALSE, sent |-> 0, failed |-> 0, log |-> <<>>]
    ELSE LET before == notify_loop_unguarded(chs, outcome, n - 1)
             log == Append(before.log, [channel |-> n, outcome |-> outcome[n]])
         IN  IF before.raised THEN before
             ELSE IF outcome[n] = "true"
               THEN [raised |-> FALSE, success |-> TRUE, sent |-> before.sent + 1,
                     failed |-> before.failed, log |-> log]
             ELSE IF outcome[n] = "false"
               THEN [raised |-> FALSE, success |-> before.success, sent |-> before.sent,
                     failed |-> before.failed + 1, log |-> log]
             ELSE [raised |-> TRUE, success |-> before.success, sent |-> before.sent,
                   failed |-> before.failed, log |-> log]

\* the loop with a second try of a channel that returned false or raised
RECURSIVE notify_loop_retrying(_, _, _)
notify_loop_retrying(chs, outcome, n) ==
    IF n = 0 THEN [raised |-> FALSE, success |-> FALSE, sent |-> 0, failed |-> 0, log |-> <<>>]
    ELSE LET before == notify_loop_retrying(chs, outcome, n - 1)
             entry == [channel |-> n, outcome |-> outcome[n]]
         IN  IF outcome[n] = "true"
               THEN [raised |-> FALSE, success |-> TRUE, sent |-> before.sent + 1,
                     failed |-> before.failed, log |-> Append(before.log, entry)]
               ELSE [raised |-> FALSE, success |-> before.success, sent |-> before.sent,
                     failed |-> before.failed + 2,
                     log |-> Append(Append(before.log, entry), entry)]

\* the loop of send_notification over chs[1..n]: the result so far, the
\* increments of the two counters and the attempts made, in order
RECURSIVE notify_loop(_, _, _)
notify_loop(chs, outcome, n) ==
    IF n = 0 THEN [raised |-> FALSE, success |-> FALSE, sent |-> 0, failed |-> 0, log |-> <<>>]
    ELSE LET before == notify_loop(chs, outcome, n - 1)
             log == Append(before.log, [channel |-> n, outcome |-> outcome[n]])
         IN  IF outcome[n] = "true"
               THEN [raised |-> FALSE, success |-> TRUE, sent |-> before.sent + 1,
                     failed |-> before.failed, log |-> log]
               ELSE [raised |-> FALSE, success |-> before.success, sent |-> before.sent,
                     failed |-> before.failed + 1, log |-> log]

send_notification(chs, outcome) ==
    IF Len(chs) = 0
      THEN [raised |-> FALSE, success |-> FALSE, sent |-> 0, failed |-> 0, log |-> <<>>]
      ELSE notify_loop(chs, outcome, Len(chs))

\* what a notifier call gives its caller
returned(sent) ==
    IF sent.raised THEN "raise" ELSE IF sent.success THEN "true" ELSE "false"

\* an IVSpikeAlert has the attributes the message formatters read; a dict
\* returned by filter_options_by_delta has none
is_alert(spike) == {"old_iv", "new_iv", "change_percent", "timestamp"} \subseteq DOMAIN spike

formatting_raises(alerts) ==
    IF Len(alerts) = 1 THEN ~is_alert(alerts[1])
    ELSE \E i \in 1..Min(10, Len(alerts)) : ~is_alert(alerts[i])

\* _format_spike_message: what the single-alert message shows
format_spike_message(spike) ==
    [kind |-> "single", symbol |-> spike.symbol, strike |-> spike.strike,
     option_type |-> spike.option_type, expiry |-> spike.expiry,
     old_iv |-> spike.old_iv, new_iv |-> spike.new_iv,
     change_percent |-> spike.change_percent, time |-> spike.timestamp]

\* _format_multiple_spikes_message: the count, a line for each of the first
\* ten alerts, and how many more there are
format_multiple_spikes_message(alerts) ==
    [kind |-> "summary", count |-> Len(alerts),
     lines |-> [i \in 1..Min(10, Len(alerts)) |->
                  <<alerts[i].symbol, alerts[i].strike, alerts[i].option_type,
                    alerts[i].change_percent>>],
     more |-> Max(0, Len(alerts) - 10)]

\* the message send_multiple_spike_alerts passes to send_notification
message_of(alerts) ==
    IF Len(alerts) = 1 THEN format_spike_message(alerts[1])
    ELSE format_multiple_spikes_message(alerts)

\* what the channels attempted in `log` were handed: the message of `alerts`
hand_offs(log, alerts) ==
    [i \in 1..Len(log) |-> [channel |-> log[i].channel, alerts |-> alerts,
                            message |-> message_of(alerts)]]

\* the alerts sent one by one, each through every channel
send_multiple_spike_alerts_each(alerts, chs, outcome) ==
    IF alerts = <<>>
      THEN [raised |-> FALSE, success |-> TRUE, sent |-> 0, failed |-> 0, log |-> <<>>]
    ELSE IF formatting_raises(alerts)
      THEN [raised |-> TRUE, success |-> FALSE, sent |-> 0, failed |-> 0, log |-> <<>>]
    ELSE LET one == send_notification(chs, outcome)
         IN  [raised |-> FALSE, success |-> one.success,
              sent |-> Len(alerts) * one.sent,
              failed |-> Len(alerts) * one.failed,
              log |-> [i \in 1..(Len(alerts) * Len(one.log)) |->
                         one.log[((i - 1) % Len(one.log)) + 1]]]

send_multiple_spike_alerts(alerts, chs, outcome) ==
    IF alerts = <<>>
      THEN [raised |-> FALSE, success |-> TRUE, sent |-> 0, failed |-> 0, log |-> <<>>]
    ELSE IF formatting_raises(alerts)
      THEN [raised |-> TRUE, success |-> FALSE, sent |-> 0, failed |-> 0, log |-> <<>>]
    ELSE send_notification(chs, outcome)


(***************************************************************************)
(* app/main.py: the scanning loop.  monitor_iv_spikes is a coroutine with  *)
(* no await in it, run by the AsyncIOScheduler on the event loop that also *)
(* serves the HTTP handlers and the lifespan; the job keeps the scheduler's*)
(* default of one instance at a time.                                      *)
(***************************************************************************)
max_instances == 1

\* a tick that starts the job whatever is running
tick_unguarded == TRUE

\* a tick may start the job: the event loop is free and no instance runs
tick_may_start == pc = "idle" /\ running < max_instances

Init ==
    /\ previous_ivs = EmptyMap
    /\ initialized = FALSE
    /\ pc = "idle"
    /\ running = 0
    /\ options_data = <<>>
    /\ spikes = <<>>
    /\ cycle_log = "none"
    /\ prior = EmptyMap
    /\ planned = {}
    /\ written = {}
    /\ \E telegram_configured \in BOOLEAN : channels = initial_channels(telegram_configured)
    /\ sent_count = 0
    /\ failed_count = 0
    /\ attempts = <<>>
    /\ attempt_count = 0
    /\ calls = 0
    /\ last_result = "none"
    /\ lifespan = "starting"
    /\ stats = NoStats
    /\ emitted = <<>>
    /\ handed = <<>>
    /\ recent = <<>>
    /\ calc = <<>>

\* a tick starts monitor_iv_spikes; fetch_option_data runs its loop to the end
FetchOk ==
    /\ tick_may_start
    /\ \E plan \in Plans : \E draw \in [1..Len(plan) -> Draws] :
         LET out == fetch_loop(previous_ivs, initialized, plan, draw, Len(plan))
         IN  /\ previous_ivs' = out.ivs
             /\ options_data' = out.data
             /\ planned' = KeysOf(plan, Len(plan))
             /\ written' = KeysOf(plan, Len(plan))
    /\ initialized' = TRUE
    /\ prior' = previous_ivs
    /\ pc' = "fetched"
    /\ running' = running + 1
    /\ spikes' = <<>>
    /\ cycle_log' = "started"
    /\ stats' = NoStats
    /\ UNCHANGED <<notifier_vars, lifespan, history_vars, query_vars>>

\* the fault with no handler in fetch_option_data: the exception reaches
\* monitor_iv_spikes' own handler
FetchFault_unhandled ==
    /\ tick_may_start
    /\ \E plan \in Plans : \E n \in 0..(Len(plan) - 1) : \E draw \in [1..n -> Draws] :
         LET out == fetch_loop(previous_ivs, initialized, plan, draw, n)
         IN  /\ previous_ivs' = out.ivs
             /\ planned' = KeysOf(plan, Len(plan))
             /\ written' = KeysOf(plan, n)
    /\ options_data' = <<>>
    /\ prior' = previous_ivs
    /\ pc' = "done"
    /\ running' = running + 1
    /\ spikes' = <<>>
    /\ cycle_log' = "error"
    /\ stats' = NoStats
    /\ UNCHANGED <<initialized, notifier_vars, lifespan, history_vars, query_vars>>

\* a tick starts monitor_iv_spikes; an exception leaves the loop of
\* fetch_option_data after n full iterations and its handler returns []
FetchFault ==
    /\ tick_may_start
    /\ \E plan \in Plans : \E n \in 0..(Len(plan) - 1) : \E draw \in [1..n -> Draws] :
         LET out == fetch_loop(previous_ivs, initialized, plan, draw, n)
         IN  /\ previous_ivs' = out.ivs
             /\ planned' = KeysOf(plan, Len(plan))
             /\ written' = KeysOf(plan, n)
    /\ options_data' = <<>>
    /\ prior' = previous_ivs
    /\ pc' = "fetched"
    /\ running' = running + 1
    /\ spikes' = <<>>
    /\ cycle_log' = "started"
    /\ stats' = NoStats
    /\ UNCHANGED <<initialized, notifier_vars, lifespan, history_vars, query_vars>>

\* the rest of monitor_iv_spikes' body: the empty check, detection, dispatch
DetectAndDispatch ==
    /\ pc = "fetched"
    /\ IF options_data = <<>>
         THEN /\ cycle_log' = "no_data"
              /\ UNCHANGED <<spikes, notifier_vars, history_vars>>
         ELSE LET detected == detect_spikes(options_data)
              IN  IF detected.raised
                    THEN /\ cycle_log' = "error"
                         /\ UNCHANGED <<spikes, notifier_vars, history_vars>>
                  ELSE IF detected.filtered = <<>>
                    THEN /\ cycle_log' = "no_spikes"
                         /\ spikes' = detected.filtered
                         /\ UNCHANGED <<notifier_vars, history_vars>>
                  ELSE \E outcome \in Outcomes(channels) :
                         LET sent == send_multiple_spike_alerts(detected.filtered, channels, outcome)
                         IN  /\ spikes' = detected.filtered
                             /\ cycle_log' = IF sent.raised THEN "error"
                                             ELSE IF sent.success THEN "sent_ok"
                                             ELSE "send_failed"
                             /\ sent_count' = sent_count + sent.sent
                             /\ failed_count' = failed_count + sent.failed
                             /\ attempts' = IF sent.raised THEN attempts ELSE sent.log
                             /\ attempt_count' = attempt_count + Len(sent.log)
                             /\ calls' = IF sent.raised THEN calls ELSE calls + 1
                             /\ last_result' = returned(sent)
                             /\ emitted' = detected.filtered
                             /\ handed' = hand_offs(sent.log, detected.filtered)
                             /\ UNCHANGED channels
    /\ pc' = "done"
    /\ UNCHANGED <<feed_vars, running, options_data, lifespan, stats, query_vars>>

\* monitor_iv_spikes returns; its locals are gone
Return ==
    /\ pc = "done"
    /\ pc' = "idle"
    /\ running' = running - 1
    /\ options_data' = <<>>
    /\ spikes' = <<>>
    /\ prior' = EmptyMap
    /\ handed' = <<>>
    /\ UNCHANGED <<previous_ivs, initialized, planned, written, cycle_log,
                   notifier_vars, lifespan, stats, emitted, query_vars>>

\* lifespan: after scheduler.start() and the sleep, test_notifications runs once
TestNotifications ==
    /\ lifespan = "starting"
    /\ pc = "idle"
    /\ \E outcome \in Outcomes(channels) :
         LET sent == send_notification(channels, outcome)
         IN  /\ sent_count' = sent_count + sent.sent
             /\ failed_count' = failed_count + sent.failed
             /\ attempts' = sent.log
             /\ attempt_count' = attempt_count + Len(sent.log)
             /\ last_result' = returned(sent)
    /\ calls' = calls + 1
    /\ lifespan' = "serving"
    /\ UNCHANGED <<feed_vars, cycle_vars, channels, stats, history_vars, query_vars>>

\* GET /stats: get_simulation_stats and get_notification_stats, on the event loop
GetStats ==
    /\ lifespan = "serving"
    /\ pc = "idle"
    /\ stats' = << [total_options_tracked |-> Cardinality(DOMAIN previous_ivs),
                   initialized |-> initialized,
                   messages_sent |-> sent_count,
                   messages_failed |-> failed_count] >>
    /\ UNCHANGED <<feed_vars, cycle_vars, notifier_vars, lifespan, history_vars,
                   query_vars>>

Next ==
    \/ FetchOk
    \/ FetchFault
    \/ DetectAndDispatch
    \/ Return
    \/ TestNotifications
    \/ GetStats

Spec == Init /\ [][Next]_vars


(***************************************************************************)
(* The notification manager on its own: a client adds channels and sends   *)
(* messages through the module's public functions.                         *)
(***************************************************************************)
MaxChannels == 3
MaxCalls == 2

\* add_channel with a channel whose is_configured() holds
AddChannel ==
    /\ Len(channels) < MaxChannels
    /\ channels' = Append(channels, "custom")
    /\ UNCHANGED <<feed_vars, cycle_vars, sent_count, failed_count, attempts,
                   attempt_count, calls, last_result, lifespan, stats, history_vars,
                   query_vars>>

\* send_notification(message)
SendNotification ==
    /\ calls < MaxCalls
    /\ \E outcome \in Outcomes(channels) :
         LET sent == send_notification(channels, outcome)
         IN  /\ sent_count' = sent_count + sent.sent
             /\ failed_count' = failed_count + sent.failed
             /\ attempts' = sent.log
             /\ attempt_count' = attempt_count + Len(sent.log)
             /\ last_result' = returned(sent)
    /\ calls' = calls + 1
    /\ UNCHANGED <<feed_vars, cycle_vars, channels, lifespan, stats, history_vars,
                   query_vars>>

MaxAlerts == 3

\* the alerts a client passes: the first n of a list of contracts that moved
AlertLists ==
    { [i \in 1..n |-> IVSpikeAlert("SENSEX", 70000 + 100 * i, "2025-06-12", "CE",
                                   13000, 11050 + 1000 * i,
                                   ((1000 * i - 1950) * 100000) \div 13000,
                                   "2025-06-12T09:15:00")] :
        n \in 0..MaxAlerts }

\* send_multiple_spike_alerts(spikes) called with `alerts`, the channels'
\* send_message doing `outcome`
MultipleSpikeAlertsCall(alerts, outcome) ==
    LET sent == send_multiple_spike_alerts(alerts, channels, outcome)
    IN  /\ emitted' = alerts
        /\ attempts' = sent.log
        /\ handed' = hand_offs(sent.log, alerts)
        /\ sent_count' = sent_count + sent.sent
        /\ failed_count' = failed_count + sent.failed
        /\ attempt_count' = attempt_count + Len(sent.log)
        /\ calls' = IF alerts = <<>> \/ sent.raised THEN calls ELSE calls + 1
        /\ last_result' = returned(sent)
        /\ UNCHANGED <<feed_vars, cycle_vars, channels, lifespan, stats, query_vars>>

\* send_multiple_spike_alerts(spikes); the model follows a client up to its
\* first call with alerts
SendMultipleSpikeAlerts ==
    /\ calls < MaxCalls
    /\ emitted = <<>>
    /\ \E alerts \in AlertLists : \E outcome \in Outcomes(channels) :
         MultipleSpikeAlertsCall(alerts, outcome)

NextNotifier ==
    \/ AddChannel
    \/ SendNotification

SpecNotifier == Init /\ [][NextNotifier]_vars

\* a client that adds channels and passes batches of alerts
NextBatch ==
    \/ AddChannel
    \/ SendMultipleSpikeAlerts

SpecBatch == Init /\ [][NextBatch]_vars

(***************************************************************************)
(* The delta filter applied to a cycle's quotes with a market context:     *)
(* a spot price, a time to expiry and a rate, as its signature asks.       *)
(***************************************************************************)
\* spot 70200.00, seven days to expiry, a rate of 6 %: T > 0 is all the
\* computed branches read of it
Context == [S |-> 7020000, T |-> 7, r |-> 6]

\* what the closed form, the root-finder and norm.cdf(d1) can give for one
\* quote under this context: the price runs from 0 to about 0.27 of the spot
\* over the bracket, so the objective changes sign for every last_price
Numerics ==
    { [price_lo |-> 0, price_hi |-> 1890000, solve |-> None, cdf |-> 0],
      [price_lo |-> 0, price_hi |-> 1890000, solve |-> 2000, cdf |-> 40],
      [price_lo |-> 0, price_hi |-> 1890000, solve |-> 2000, cdf |-> 60] }

InitFilter == Init /\ channels = initial_channels(FALSE)

\* the feed step of a cycle, with no fault
FilterFetch == FetchOk

\* filter_options_by_delta(options_data, S, T, r)
ApplyFilter ==
    /\ pc = "fetched"
    /\ \E numerics \in [1..Len(options_data) -> Numerics] :
         LET res == filter_options_by_delta(options_data, Context.S, Context.T,
                                            Context.r, numerics)
         IN  /\ spikes' = res.filtered
             /\ cycle_log' = IF res.raised THEN "error" ELSE "filtered"
    /\ pc' = "done"
    /\ UNCHANGED <<feed_vars, running, options_data, notifier_vars, lifespan, stats,
                   history_vars, query_vars>>

FilterReturn == Return

NextFilter ==
    \/ FilterFetch
    \/ ApplyFilter
    \/ FilterReturn

SpecFilter == InitFilter /\ [][NextFilter]_vars


(***************************************************************************)
(* The cycle with a detection that reports.  monitor_iv_spikes hands       *)
(* whatever detect_spikes returned to send_multiple_spike_alerts; here the *)
(* result is a list of IVSpikeAlert, which is what the notifier is         *)
(* declared to take, or the list of dicts filter_options_by_delta returns  *)
(* under a market context.  A channel's send_message is a blocking call    *)
(* made from the coroutine: between its start and its return the model     *)
(* has the state pc = "sending", with the attempts finished so far in      *)
(* `attempts`.                                                             *)
(***************************************************************************)
MaxLimit == 2

\* the draws of this specification: the large downward move
DispatchDraws == { d \in Draws : d.change < 0 }

\* seq restricted to the positions in I, in order
RECURSIVE select(_, _, _)
select(seq, I, n) ==
    IF n = 0 THEN <<>>
    ELSE select(seq, I, n - 1) \o (IF n \in I THEN <<seq[n]>> ELSE <<>>)

\* the positions of the cycle's quotes whose IV moved by at least the threshold
CrossedPositions(options, before) ==
    { i \in 1..Len(options) :
        LET key == generate_option_key(options[i].symbol, options[i].strike,
                                       options[i].expiry, options[i].option_type)
        IN  /\ key \in DOMAIN before
            /\ Abs(options[i].iv - before[key]) * 100 >= IV_SPIKE_THRESHOLD_PERCENT * before[key] }

\* the alert over the quote at position i and its contract's IV before the cycle
alert_for(options, before, i) ==
    LET q == options[i]
        old_iv == before[generate_option_key(q.symbol, q.strike, q.expiry, q.option_type)]
    IN  IVSpikeAlert(q.symbol, q.strike, q.expiry, q.option_type, old_iv, q.iv,
                     ((q.iv - old_iv) * 100000) \div old_iv, "now")

\* what detection can hand to the dispatch: alerts for some of the contracts
\* that moved, in quote order, or the delta filter's dicts
Reports(options, before) ==
    LET crossed == CrossedPositions(options, before)
        alerts == [i \in 1..Len(options) |->
                     IF i \in crossed THEN alert_for(options, before, i) ELSE options[i]]
    IN  { select(alerts, I, Len(options)) : I \in SUBSET crossed }
        \cup { filter_options_by_delta(options, Context.S, Context.T, Context.r,
                                       numerics).filtered :
                 numerics \in [1..Len(options) -> Numerics] }

\* where monitor_iv_spikes is once its handler has logged an exception
after_exception_escaped == "crashed"

after_exception == "done"

\* fetch_option_data with its loop run to the end, on the draws given
FetchOkWith(draws) ==
    /\ tick_may_start
    /\ \E plan \in Plans : \E draw \in [1..Len(plan) -> draws] :
         LET out == fetch_loop(previous_ivs, initialized, plan, draw, Len(plan))
         IN  /\ previous_ivs' = out.ivs
             /\ options_data' = out.data
             /\ planned' = KeysOf(plan, Len(plan))
             /\ written' = KeysOf(plan, Len(plan))
    /\ initialized' = TRUE
    /\ prior' = previous_ivs
    /\ pc' = "fetched"
    /\ running' = running + 1
    /\ spikes' = <<>>
    /\ cycle_log' = "started"
    /\ stats' = NoStats
    /\ emitted' = <<>>
    /\ recent' = <<>>
    /\ UNCHANGED <<notifier_vars, lifespan, handed, calc>>

\* fetch_option_data left by an exception after n iterations, on the draws given
FetchFaultWith(draws) ==
    /\ tick_may_start
    /\ \E plan \in Plans : \E n \in 0..(Len(plan) - 1) : \E draw \in [1..n -> draws] :
         LET out == fetch_loop(previous_ivs, initialized, plan, draw, n)
         IN  /\ previous_ivs' = out.ivs
             /\ planned' = KeysOf(plan, Len(plan))
             /\ written' = KeysOf(plan, n)
    /\ options_data' = <<>>
    /\ prior' = previous_ivs
    /\ pc' = "fetched"
    /\ running' = running + 1
    /\ spikes' = <<>>
    /\ cycle_log' = "started"
    /\ stats' = NoStats
    /\ emitted' = <<>>
    /\ recent' = <<>>
    /\ UNCHANGED <<initialized, notifier_vars, lifespan, handed, calc>>

DispatchFetch == FetchOkWith(DispatchDraws)

DispatchFetchFault == FetchFaultWith(DispatchDraws)

\* the empty check with the simulator reset when no data came
NoData_resetting ==
    /\ pc = "fetched"
    /\ options_data = <<>>
    /\ pc' = "done"
    /\ cycle_log' = "no_data"
    /\ previous_ivs' = EmptyMap
    /\ initialized' = FALSE
    /\ UNCHANGED <<prior, planned, written, running, options_data, spikes,
                   notifier_vars, lifespan, stats, history_vars, query_vars>>

\* the empty check of monitor_iv_spikes on an empty quote sequence
NoData ==
    /\ pc = "fetched"
    /\ options_data = <<>>
    /\ pc' = "done"
    /\ cycle_log' = "no_data"
    /\ UNCHANGED <<feed_vars, running, options_data, spikes, notifier_vars, lifespan,
                   stats, history_vars, query_vars>>

\* detection returns `report`; a non-empty one goes to
\* send_multiple_spike_alerts, which formats the message and enters the loop
\* of send_notification
Report ==
    /\ pc = "fetched"
    /\ options_data # <<>>
    /\ \E report \in Reports(options_data, prior) :
         /\ (report # <<>> /\ ~formatting_raises(report)) => calls < MaxCalls
         /\ spikes' = report
         /\ IF report = <<>>
              THEN /\ pc' = "done"
                   /\ cycle_log' = "no_spikes"
                   /\ UNCHANGED <<notifier_vars, emitted>>
            ELSE IF formatting_raises(report)
              THEN /\ pc' = after_exception
                   /\ cycle_log' = "error"
                   /\ last_result' = "raise"
                   /\ emitted' = report
                   /\ UNCHANGED <<channels, sent_count, failed_count, attempts,
                                  attempt_count, calls>>
            ELSE IF Len(channels) = 0
              THEN /\ pc' = "done"
                   /\ cycle_log' = "send_failed"
                   /\ last_result' = "false"
                   /\ attempts' = <<>>
                   /\ calls' = calls + 1
                   /\ emitted' = report
                   /\ UNCHANGED <<channels, sent_count, failed_count, attempt_count>>
            ELSE /\ pc' = "sending"
                 /\ cycle_log' = "started"
                 /\ attempts' = <<>>
                 /\ emitted' = report
                 /\ UNCHANGED <<channels, sent_count, failed_count, attempt_count,
                                calls, last_result>>
    /\ UNCHANGED <<feed_vars, running, options_data, lifespan, stats, handed,
                   query_vars>>

\* the channels the call in progress is done with
channels_done(log) == { log[i].channel : i \in 1..Len(log) }

\* the send_message in progress returns or raises: one iteration of the loop
\* of send_notification; after the last channel the call returns and
\* monitor_iv_spikes logs the result
ChannelSend ==
    /\ pc = "sending"
    /\ LET n == Cardinality(channels_done(attempts)) + 1
       IN  \E o \in send_outcomes(channels[n]) :
             LET outcome == [i \in 1..n |->
                               IF i = n THEN o
                               ELSE attempts[CHOOSE k \in 1..Len(attempts) :
                                                attempts[k].channel = i].outcome]
                 before == notify_loop(channels, outcome, n - 1)
                 res == notify_loop(channels, outcome, n)
                 fresh == SubSeq(res.log, Len(before.log) + 1, Len(res.log))
             IN  /\ sent_count' = sent_count + (res.sent - before.sent)
                 /\ failed_count' = failed_count + (res.failed - before.failed)
                 /\ attempts' = res.log
                 /\ attempt_count' = attempt_count + Len(fresh)
                 /\ handed' = handed \o hand_offs(fresh, spikes)
                 /\ IF n = Len(channels)
                      THEN /\ pc' = "done"
                           /\ calls' = calls + 1
                           /\ last_result' = returned(res)
                           /\ cycle_log' = IF res.success THEN "sent_ok" ELSE "send_failed"
                      ELSE /\ pc' = "sending"
                           /\ UNCHANGED <<calls, last_result, cycle_log>>
    /\ UNCHANGED <<feed_vars, running, options_data, spikes, channels, lifespan, stats,
                   emitted, query_vars>>

\* GET /recent-spikes?limit=..., on the event loop
GetRecentSpikes ==
    /\ lifespan = "serving"
    /\ pc = "idle"
    /\ \E limit \in 0..MaxLimit :
         LET found == get_recent_spikes(limit)
         IN  recent' = << [limit |-> limit, count |-> Len(found), spikes |-> found] >>
    /\ UNCHANGED <<feed_vars, cycle_vars, notifier_vars, lifespan, stats, history_vars,
                   calc>>

NextDispatch ==
    \/ DispatchFetch
    \/ DispatchFetchFault
    \/ NoData
    \/ Report
    \/ ChannelSend
    \/ Return
    \/ TestNotifications
    \/ GetRecentSpikes
    \/ GetStats

SpecDispatch == Init /\ [][NextDispatch]_vars

\* the interval trigger fires: a cycle starts
TickFires == tick_may_start /\ pc' = "fetched"

\* detect_spikes returns on the quotes fetched and the cycle moves on
DetectionReturns ==
    /\ pc = "fetched"
    /\ options_data # <<>>
    /\ pc' \in {"done", "sending", after_exception}

\* the interval trigger keeps firing and the event loop runs the coroutine on;
\* a send_message in progress returns or raises (requests.post has a timeout)
SpecDispatchFair ==
    /\ SpecDispatch
    /\ WF_pc(TickFires)
    /\ WF_vars(NoData)
    /\ WF_pc(DetectionReturns)
    /\ WF_vars(ChannelSend)
    /\ WF_vars(Return)


(***************************************************************************)
(* The pricing functions applied on their own.  Money is in                *)
(* ten-thousandths here (100.0000 = 1000000), T in years, r in percent.    *)
(***************************************************************************)
\* the closed form of black_scholes_price (T > 0) in double precision, at
\* S = 100, T = 1, r = 0.05: at the money, and a call far out of the money,
\* whose price is exactly 0.0 for the small volatilities
BSTable ==
    { [S |-> 1000000, K |-> 1000000, option_type |-> "call", sigma |-> 1, price |-> 48771],
      [S |-> 1000000, K |-> 1000000, option_type |-> "call", sigma |-> 200, price |-> 48810],
      [S |-> 1000000, K |-> 1000000, option_type |-> "call", sigma |-> 2000, price |-> 104506],
      [S |-> 1000000, K |-> 1000000, option_type |-> "call", sigma |-> 20000, price |-> 690575],
      [S |-> 1000000, K |-> 1000000, option_type |-> "call", sigma |-> 50000, price |-> 987888],
      [S |-> 1000000, K |-> 1000000, option_type |-> "put", sigma |-> 1, price |-> 0],
      [S |-> 1000000, K |-> 1000000, option_type |-> "put", sigma |-> 200, price |-> 39],
      [S |-> 1000000, K |-> 1000000, option_type |-> "put", sigma |-> 2000, price |-> 55735],
      [S |-> 1000000, K |-> 1000000, option_type |-> "put", sigma |-> 20000, price |-> 641804],
      [S |-> 1000000, K |-> 1000000, option_type |-> "put", sigma |-> 50000, price |-> 939117],
      [S |-> 1000000, K |-> 10000000, option_type |-> "call", sigma |-> 1, price |-> 0],
      [S |-> 1000000, K |-> 10000000, option_type |-> "call", sigma |-> 200, price |-> 0],
      [S |-> 1000000, K |-> 10000000, option_type |-> "call", sigma |-> 20000, price |-> 290520],
      [S |-> 1000000, K |-> 10000000, option_type |-> "call", sigma |-> 50000, price |-> 964704] }

TableRows(S, K, option_type) ==
    { e \in BSTable : e.S = S /\ e.K = K /\ e.option_type = option_type }

\* the closed-form price at a tabulated point
closed_form(S, K, sigma, option_type) ==
    (CHOOSE e \in TableRows(S, K, option_type) : e.sigma = sigma).price

\* the root of the objective over the tabulated volatilities: the one whose
\* price is market_price, the least when the price is flat; None when none is
solve_on_table(S, K, option_type, market_price) ==
    LET roots == { e.sigma : e \in { x \in TableRows(S, K, option_type) :
                                        x.price = market_price } }
    IN  IF roots = {} THEN None
        ELSE CHOOSE x \in roots : \A y \in roots : x <= y

\* the numerics of a tabulated contract for the market price given
table_numerics(S, K, option_type, market_price) ==
    [price_lo |-> closed_form(S, K, SigmaLo, option_type),
     price_hi |-> closed_form(S, K, SigmaHi, option_type),
     solve |-> solve_on_table(S, K, option_type, market_price),
     cdf |-> 0]

\* the inputs the applications draw from
CalcMoney == {-1000000, 0, 900000, 1000000, 1100000}
CalcTimes == {-1, 0, 1}
CalcRates == {0, 5}
CalcSigmas == {SigmaLo, 2000}
CalcPrices == {-10000, 0, 50000, 104506, 2000000}
CalcNumerics ==
    { [price_lo |-> 48771, price_hi |-> 987888, solve |-> 2000, cdf |-> 64],
      [price_lo |-> 48771, price_hi |-> 987888, solve |-> None, cdf |-> 64] }

\* black_scholes_price(S, K, T, r, sigma, option_type)
ApplyPrice ==
    /\ calc = <<>>
    /\ \E S \in CalcMoney, K \in CalcMoney, T \in CalcTimes, r \in CalcRates,
          sigma \in CalcSigmas, option_type \in {"call", "put"}, num \in CalcNumerics :
         calc' = << [fn |-> "black_scholes_price", market_price |-> 0, S |-> S, K |-> K,
                     T |-> T, r |-> r, sigma |-> sigma, option_type |-> option_type,
                     num |-> num,
                     price |-> black_scholes_price(S, K, T, r, sigma, option_type,
                                                   num.price_hi),
                     iv |-> None, caller |-> "none"] >>
    /\ UNCHANGED <<feed_vars, cycle_vars, notifier_vars, lifespan, stats, history_vars,
                   recent>>

\* implied_volatility(market_price, S, K, T, r, option_type), and what
\* filter_options_by_delta does with a quote of that contract
ApplyImpliedVolatility ==
    /\ calc = <<>>
    /\ \E market_price \in CalcPrices, S \in CalcMoney, K \in CalcMoney \ {0},
          T \in CalcTimes, option_type \in {"call", "put"}, num \in CalcNumerics :
         LET quote == [symbol |-> "SENSEX", strike |-> K \div 100, expiry |-> "2025-06-12",
                       option_type |-> option_type, iv |-> 18000,
                       last_price |-> market_price, price |-> market_price,
                       volume |-> 100, oi |-> 1000]
             res == filter_options_by_delta(<<quote>>, S, T, 5, <<num>>)
         IN  calc' = << [fn |-> "implied_volatility", market_price |-> market_price,
                         S |-> S, K |-> K, T |-> T, r |-> 5, sigma |-> 0,
                         option_type |-> option_type, num |-> num, price |-> 0,
                         iv |-> implied_volatility(market_price, S, K, T, 5,
                                                   option_type, num),
                         caller |-> IF res.raised THEN "raise"
                                    ELSE IF res.filtered = <<>> THEN "skipped"
                                    ELSE "kept"] >>
    /\ UNCHANGED <<feed_vars, cycle_vars, notifier_vars, lifespan, stats, history_vars,
                   recent>>

\* implied_volatility(black_scholes_price(S, K, T, r, sigma, kind), S, K, T, r, kind)
\* at a tabulated point
RoundTrip ==
    /\ calc = <<>>
    /\ \E e \in BSTable :
         LET market_price == black_scholes_price(e.S, e.K, 1, 5, e.sigma, e.option_type,
                                 closed_form(e.S, e.K, e.sigma, e.option_type))
             num == table_numerics(e.S, e.K, e.option_type, market_price)
         IN  calc' = << [fn |-> "round_trip", market_price |-> market_price, S |-> e.S,
                         K |-> e.K, T |-> 1, r |-> 5, sigma |-> e.sigma,
                         option_type |-> e.option_type, num |-> num,
                         price |-> market_price,
                         iv |-> implied_volatility(market_price, e.S, e.K, 1, 5,
                                                   e.option_type, num),
                         caller |-> "none"] >>
    /\ UNCHANGED <<feed_vars, cycle_vars, notifier_vars, lifespan, stats, history_vars,
                   recent>>

NextCalc ==
    \/ ApplyPrice
    \/ ApplyImpliedVolatility
    \/ RoundTrip

SpecCalc == Init /\ [][NextCalc]_vars


(***************************************************************************)
(* The feed step on a ladder longer than the ten strikes a cycle samples:  *)
(* the first strikes of the configured SENSEX ladder.                      *)
(***************************************************************************)
LadderLen == 11

LongLadder == [i \in 1..LadderLen |-> 70000 + 100 * (i - 1)]

\* a draw with replacement: k strikes of the ladder, repeats allowed
random_choices(ladder, s) ==
    /\ Len(s) = Min(MaxStrikesPerCycle, Len(ladder))
    /\ \A i \in 1..Len(s) : \E p \in 1..Len(ladder) : s[i] = ladder[p]

\* s is a result of random.sample(ladder, min(10, len(ladder))): strikes at
\* k distinct positions of the ladder, whose entries are distinct
random_sample(ladder, s) ==
    /\ Len(s) = Min(MaxStrikesPerCycle, Len(ladder))
    /\ \A i \in 1..Len(s) : \E p \in 1..Len(ladder) : s[i] = ladder[p]
    /\ \A i, j \in 1..Len(s) : i # j => s[i] # s[j]

\* k strikes read off the ladder from position `start`, wrapping after `period`
Window(ladder, start, period, k) ==
    [i \in 1..k |-> ladder[((start + i - 2) % period) + 1]]

\* the strike sequences the sampling is tried on: windows over the whole
\* ladder, and windows that wrap early and so hold a strike twice
SampleCandidates ==
    LET k == Min(MaxStrikesPerCycle, LadderLen)
    IN  { Window(LongLadder, start, period, k) :
            start \in {1, 2}, period \in {k - 1, LadderLen} }

\* n walk steps from iv, each with the same drawn change
RECURSIVE walked(_, _, _, _)
walked(iv, symbol, change, n) ==
    IF n = 0 THEN iv
    ELSE simulate_iv_change(walked(iv, symbol, change, n - 1), symbol, change)

\* the value iteration i of the loop stores for its key plan[i], every
\* iteration taking the draw d: an iteration reads and writes the entry of
\* its own key only, so the value is the key's entry before the fetch (its
\* seed when there is none) after one walk step per iteration on that key
\* up to i; before the first full fetch every iteration seeds anew
iv_after(ivs, init, plan, d, i) ==
    LET option_key == plan[i]
        symbol == option_key[1]
        turns == Cardinality({ j \in 1..i : plan[j] = option_key })
    IN  IF ~init
          THEN walked(seed_iv(symbol, d.noise), symbol, d.change, 1)
        ELSE IF option_key \notin DOMAIN ivs
          THEN walked(seed_iv(symbol, d.noise), symbol, d.change, turns)
        ELSE walked(ivs[option_key], symbol, d.change, turns)

\* the loop of fetch_option_data over the whole plan with the draw d in every
\* iteration: the IV state map and the quotes, as fetch_loop gives them
fetch_uniform(ivs, init, plan, d) ==
    LET last(option_key) ==
            CHOOSE i \in 1..Len(plan) :
                /\ plan[i] = option_key
                /\ \A j \in (i + 1)..Len(plan) : plan[j] # option_key
    IN  [ivs |-> [option_key \in DOMAIN ivs \cup KeysOf(plan, Len(plan)) |->
                    IF option_key \in KeysOf(plan, Len(plan))
                      THEN iv_after(ivs, init, plan, d, last(option_key))
                      ELSE ivs[option_key]],
         data |-> [i \in 1..Len(plan) |->
                     [symbol |-> plan[i][1],
                      strike |-> plan[i][2],
                      expiry |-> plan[i][3],
                      option_type |-> plan[i][4],
                      iv |-> round2(iv_after(ivs, init, plan, d, i)),
                      last_price |-> d.last_price,
                      price |-> d.last_price,
                      volume |-> d.volume,
                      oi |-> d.oi]]]

\* a tick starts monitor_iv_spikes; fetch_option_data samples the long ladder
\* and runs its loop to the end, every iteration with the same draw
SampledFetch ==
    /\ tick_may_start
    /\ \E s \in SampleCandidates : \E d \in Draws :
         LET plan == fetch_plan([symbol \in DOMAIN STRIKE_RANGES |-> s],
                                Len(SYMBOLS_TO_MONITOR))
             out == fetch_uniform(previous_ivs, initialized, plan, d)
         IN  /\ random_sample(LongLadder, s)
             /\ previous_ivs' = out.ivs
             /\ options_data' = out.data
             /\ planned' = KeysOf(plan, Len(plan))
             /\ written' = KeysOf(plan, Len(plan))
    /\ initialized' = TRUE
    /\ prior' = previous_ivs
    /\ pc' = "fetched"
    /\ running' = running + 1
    /\ spikes' = <<>>
    /\ cycle_log' = "started"
    /\ stats' = NoStats
    /\ UNCHANGED <<notifier_vars, lifespan, history_vars, query_vars>>

NextSample ==
    \/ SampledFetch
    \/ DetectAndDispatch
    \/ Return

SpecSample == Init /\ [][NextSample]_vars


(***************************************************************************)
(* Properties                                                              *)
(***************************************************************************)
KeyOfQuote(q) == generate_option_key(q.symbol, q.strike, q.expiry, q.option_type)

\* the positions in the detector's result that name the contract `key`
AlertsFor(key) == { j \in 1..Len(spikes) : KeyOfQuote(spikes[j]) = key }

\* abs((new_iv - old_iv) / old_iv * 100) >= threshold, for old_iv > 0
ChangeAtLeast(old_iv, new_iv, threshold) ==
    Abs(new_iv - old_iv) * 100 >= threshold * old_iv

\* the quote at position i moved by at least the threshold since its contract's
\* previous observation
Crossed(i) ==
    LET key == KeyOfQuote(options_data[i])
    IN  /\ key \in DOMAIN prior
        /\ ChangeAtLeast(prior[key], options_data[i].iv, IV_SPIKE_THRESHOLD_PERCENT)

\* detection has run on this cycle's quotes
Detected == pc = "done" /\ options_data # <<>>

\* 0.5 * base_iv(symbol) <= iv <= 2.5 * base_iv(symbol), and iv > 0
InBounds(symbol, iv) ==
    /\ iv > 0
    /\ 2 * iv >= get_base_iv(symbol)
    /\ 2 * iv <= 5 * get_base_iv(symbol)

\* the latest fetch stored some of the contracts it selected and not the others
Torn == written # {} /\ written # planned

CountOutcomes(log, which) == Cardinality({ i \in 1..Len(log) : log[i].outcome \in which })

\* C1: once detection has run on a cycle's quotes, every contract whose IV
\* moved by at least the threshold since its previous observation has exactly
\* one alert in the detector's result.
C1_SpikeOnThresholdCrossing ==
    Detected =>
        \A i \in 1..Len(options_data) :
            Crossed(i) => Cardinality(AlertsFor(KeyOfQuote(options_data[i]))) = 1

\* C2: once detection has run, a contract whose IV moved by less than the
\* threshold, or that is observed for the first time, has no alert in the
\* detector's result.
C2_NoAlertBelowThreshold ==
    Detected =>
        \A i \in 1..Len(options_data) :
            ~Crossed(i) => AlertsFor(KeyOfQuote(options_data[i])) = {}

\* a cycle in which one contract moved by less than the threshold and another
\* is observed for the first time, after detection
C2_Witness ==
    /\ Detected
    /\ cycle_log = "no_spikes"
    /\ \E i \in 1..Len(options_data) :
         KeyOfQuote(options_data[i]) \in DOMAIN prior /\ ~Crossed(i)
    /\ \E i \in 1..Len(options_data) : KeyOfQuote(options_data[i]) \notin DOMAIN prior

C4_AlertComparesAdjacent ==
    pc = "done" =>
        \A j \in 1..Len(spikes) :
            LET a == spikes[j]
                key == KeyOfQuote(a)
            IN  /\ is_alert(a)
                /\ key \in DOMAIN prior
                /\ a.old_iv = prior[key]
                /\ \E i \in 1..Len(options_data) :
                     KeyOfQuote(options_data[i]) = key /\ a.new_iv = options_data[i].iv
                /\ a.change_percent * a.old_iv = (a.new_iv - a.old_iv) * 100

\* C5: detection as the scanning loop calls it, without a market context,
\* excludes no quote: every quote of the cycle is in the detector's result,
\* in order.
C5_FilterSkipped ==
    Detected =>
        /\ Len(spikes) = Len(options_data)
        /\ \A i \in 1..Len(options_data) : KeyOfQuote(spikes[i]) = KeyOfQuote(options_data[i])

\* C6: the two counters add up to the channel attempts made; neither ever
\* decreases; a send_notification call returns true exactly when some channel
\* returned true, counts each true in sent_count and each false or raise in
\* failed_count.
C6_DeliveryCounters ==
    /\ [](sent_count + failed_count = attempt_count)
    /\ [][/\ sent_count' >= sent_count
          /\ failed_count' >= failed_count
          /\ calls' # calls =>
               /\ (last_result' = "true") <=>
                    (\E i \in 1..Len(attempts') : attempts'[i].outcome = "true")
               /\ sent_count' - sent_count = CountOutcomes(attempts', {"true"})
               /\ failed_count' - failed_count = CountOutcomes(attempts', {"false", "raise"})
               /\ Len(attempts') = Len(channels)]_vars

\* a call in which one channel delivered, one returned false and one raised
C6_Witness ==
    /\ calls > 0
    /\ last_result = "true"
    /\ CountOutcomes(attempts, {"true"}) = 1
    /\ CountOutcomes(attempts, {"false"}) = 1
    /\ CountOutcomes(attempts, {"raise"}) = 1
    /\ sent_count + failed_count = attempt_count

\* C7: a send_notification call attempts every channel of the list once, in
\* list order, whatever the earlier channels did, and returns to its caller.
C7_ChannelIsolation ==
    [][calls' # calls =>
         /\ Len(attempts') = Len(channels)
         /\ \A i \in 1..Len(channels) : attempts'[i].channel = i
         /\ last_result' \in {"true", "false"}]_vars

\* a call in which a channel returned false, a later one raised, and a
\* channel after both was still attempted
C7_Witness ==
    /\ calls > 0
    /\ Len(attempts) = Len(channels)
    /\ \E i, j, k \in 1..Len(attempts) :
         /\ i < j /\ j < k
         /\ attempts[i].outcome = "false"
         /\ attempts[j].outcome = "raise"
         /\ attempts[k].channel = k
    /\ last_result \in {"true", "false"}

\* C8: a fetch that fails gives the cycle an empty quote sequence, not an
\* exception; a cycle with an empty quote sequence ends on the no-data
\* return with no alert and with the notifier untouched.
C8_FeedFailsSoftly ==
    /\ []((pc # "idle" /\ written # planned) =>
            /\ options_data = <<>>
            /\ spikes = <<>>
            /\ cycle_log \in {"started", "no_data"})
    /\ [][(pc = "fetched" /\ options_data = <<>>) =>
            /\ pc' = "done"
            /\ cycle_log' = "no_data"
            /\ spikes' = <<>>
            /\ UNCHANGED notifier_vars]_vars

\* a cycle whose fetch failed after storing some contracts, at its return
C8_Witness ==
    /\ pc = "done"
    /\ Torn
    /\ options_data = <<>>
    /\ cycle_log = "no_data"
    /\ spikes = <<>>

\* C9: at most one execution of monitor_iv_spikes is in progress.
C9_NoOverlap == running <= 1

\* a cycle in progress, during which no tick can start another
C9_Witness == running = 1 /\ pc = "fetched" /\ ~tick_may_start

\* C10: what a /stats request reads is never an IV state map that the latest
\* fetch updated for some of the contracts it selected and not for the others.
C10_AtomicVisibility == stats # NoStats => ~Torn

\* C11: while a channel send of a cycle is in progress, the next tick can
\* start the next cycle, and every send of the call that failed so far is
\* in the failure counter.
C11_SlowSinkDoesNotBlock ==
    pc = "sending" =>
        /\ tick_may_start
        /\ failed_count >= CountOutcomes(attempts, {"false", "raise"})

\* the alert is over this cycle's observation of its contract
OfThisCycle(a) ==
    /\ is_alert(a)
    /\ KeyOfQuote(a) \in DOMAIN prior
    /\ a.old_iv = prior[KeyOfQuote(a)]
    /\ \E i \in 1..Len(options_data) :
         KeyOfQuote(options_data[i]) = KeyOfQuote(a) /\ options_data[i].iv = a.new_iv

\* C12: within a cycle no channel is handed the alerts twice; what a channel
\* is handed is the alerts this cycle detected, each over this cycle's
\* observation; a cycle starts with no alert and no hand-off carried over.
C12_AtMostOnceDelivery ==
    /\ \A i, j \in 1..Len(handed) : i # j => handed[i].channel # handed[j].channel
    /\ \A i \in 1..Len(handed) :
         /\ handed[i].channel \in 1..Len(channels)
         /\ handed[i].alerts = spikes
         /\ spikes # <<>>
         /\ \A k \in 1..Len(spikes) : OfThisCycle(spikes[k])
    /\ pc \in {"idle", "fetched"} => (handed = <<>> /\ spikes = <<>>)

\* a cycle that detects nothing, run after a cycle whose delivery failed on
\* every channel: nothing is handed to any channel
C12_Witness ==
    /\ pc = "done"
    /\ cycle_log = "no_spikes"
    /\ options_data # <<>>
    /\ lifespan = "starting"
    /\ calls > 0
    /\ last_result = "false"
    /\ failed_count = Len(channels)
    /\ handed = <<>>

\* C13: what a /recent-spikes request with limit >= 0 reads has at most
\* `limit` alerts, and when the latest cycle emitted alerts and limit >= 1,
\* the first of them is one of that cycle's.
C13_RecentSpikes ==
    recent # <<>> =>
        /\ recent[1].count <= recent[1].limit
        /\ (recent[1].limit >= 1 /\ emitted # <<>>) =>
             /\ recent[1].spikes # <<>>
             /\ \E i \in 1..Len(emitted) : recent[1].spikes[1] = emitted[i]

\* the objective of implied_volatility at both ends of the bracket, as the
\* pricing definition gives it
ObjectiveLo(c) ==
    (IF c.T <= 0
       THEN IF c.option_type = "call" THEN Max(0, c.S - c.K) ELSE Max(0, c.K - c.S)
       ELSE c.num.price_lo) - c.market_price
ObjectiveHi(c) ==
    (IF c.T <= 0
       THEN IF c.option_type = "call" THEN Max(0, c.S - c.K) ELSE Max(0, c.K - c.S)
       ELSE c.num.price_hi) - c.market_price

\* the solve has no result: the objective raises (log of a ratio that is not
\* positive), or keeps one
\* strict sign over the bracket, or the root-finder does not converge
NoResult(c) ==
    \/ c.T > 0 /\ (c.S = 0 \/ c.K = 0 \/ (c.S < 0) # (c.K < 0))
    \/ ObjectiveLo(c) > 0 /\ ObjectiveHi(c) > 0
    \/ ObjectiveLo(c) < 0 /\ ObjectiveHi(c) < 0
    \/ ObjectiveLo(c) < 0 /\ ObjectiveHi(c) > 0 /\ c.num.solve = None

\* C14: implied_volatility always returns a value, a volatility of the
\* bracket or None; when the solve has no result it returns None, and
\* filter_options_by_delta skips the quote without raising.
C14_NoResultIsAValue ==
    (calc # <<>> /\ calc[1].fn = "implied_volatility") =>
        /\ calc[1].iv = None \/ (SigmaLo <= calc[1].iv /\ calc[1].iv <= SigmaHi)
        /\ NoResult(calc[1]) => (calc[1].iv = None /\ calc[1].caller = "skipped")

\* a negative market price with T > 0 and valid S, K: None, and the caller skips
C14_Witness ==
    /\ calc # <<>>
    /\ calc[1].fn = "implied_volatility"
    /\ calc[1].market_price < 0
    /\ calc[1].T > 0 /\ calc[1].S > 0 /\ calc[1].K > 0
    /\ calc[1].iv = None
    /\ calc[1].caller = "skipped"

\* C18: for T <= 0 black_scholes_price returns max(0, S - K) for a call and
\* max(0, K - S) for a put, whatever r and sigma are.
C18_ImmediateExpiry ==
    (calc # <<>> /\ calc[1].fn = "black_scholes_price" /\ calc[1].T <= 0) =>
        calc[1].price = IF calc[1].option_type = "call"
                          THEN Max(0, calc[1].S - calc[1].K)
                          ELSE Max(0, calc[1].K - calc[1].S)

\* a call priced at expiry below its strike: the floor at zero applies
C18_Witness ==
    /\ calc # <<>>
    /\ calc[1].fn = "black_scholes_price"
    /\ calc[1].T = 0
    /\ calc[1].option_type = "call"
    /\ calc[1].S < calc[1].K
    /\ calc[1].sigma = 2000 /\ calc[1].r = 5
    /\ calc[1].price = 0

\* C19: for S > 0, K > 0, T > 0 and sigma in (0.01, 3.0), the implied
\* volatility of the price at sigma is a number within 0.001 of sigma.
C19_RoundTrip ==
    (calc # <<>> /\ calc[1].fn = "round_trip"
       /\ calc[1].sigma > 100 /\ calc[1].sigma < 30000) =>
        /\ calc[1].iv # None
        /\ Abs(calc[1].iv - calc[1].sigma) <= 10

\* the positions of the cycle's quote sequence that name the record's contract
PositionsOf(a) == { i \in 1..Len(options_data) : KeyOfQuote(options_data[i]) = KeyOfQuote(a) }

\* C15: the records the detector returns for a cycle are a subsequence of
\* the cycle's quote sequence: each is over one quote, and a record that
\* comes earlier in the result is over a quote that comes earlier.
C15_StableOrdering ==
    pc = "done" =>
        /\ \A j \in 1..Len(spikes) : PositionsOf(spikes[j]) # {}
        /\ \A j, k \in 1..Len(spikes) :
             j < k => \A x \in PositionsOf(spikes[j]) : \A y \in PositionsOf(spikes[k]) : x < y

\* a result of two records, over the first and the last quote of four
C15_Witness ==
    /\ pc = "done"
    /\ Len(options_data) = 4
    /\ Len(spikes) = 2
    /\ PositionsOf(spikes[1]) = {1}
    /\ PositionsOf(spikes[2]) = {4}

\* the configured symbol x strike x first-two-expiries x {CE, PE} space
ContractSpace ==
    { generate_option_key(SYMBOLS_TO_MONITOR[i], STRIKE_RANGES[SYMBOLS_TO_MONITOR[i]][j],
                          first_expiries[k], OPTION_TYPES[l]) :
        i \in 1..Len(SYMBOLS_TO_MONITOR), j \in 1..Len(STRIKE_RANGES["SENSEX"]),
        k \in 1..Len(first_expiries), l \in 1..Len(OPTION_TYPES) }

\* new_iv is one step of the random walk from old_iv
WalkStep(key, old_iv, new_iv) ==
    \E d \in Draws : new_iv = simulate_iv_change(old_iv, key[1], d.change)

\* C17: the IV state map is empty at process start and holds only contracts
\* of the configured space; no entry is ever deleted, and an entry that
\* exists is only evolved by a walk step from the value it holds, never
\* seeded again.
C17_IVStateLifecycle ==
    /\ previous_ivs = EmptyMap
    /\ [](DOMAIN previous_ivs \subseteq ContractSpace)
    /\ [][/\ DOMAIN previous_ivs \subseteq DOMAIN previous_ivs'
          /\ \A key \in DOMAIN previous_ivs :
               \/ previous_ivs'[key] = previous_ivs[key]
               \/ WalkStep(key, previous_ivs[key], previous_ivs'[key])]_vars

\* C20: after a fetch, a contract that had no entry before the cycle holds
\* its initial value, within [max(5, base_iv - 5), base_iv + 5], and its
\* quote carries that value.
C20_FirstObservationSeeded ==
    pc = "fetched" =>
        \A i \in 1..Len(options_data) :
            LET key == KeyOfQuote(options_data[i])
                base_iv == get_base_iv(key[1])
            IN  key \notin DOMAIN prior =>
                  /\ previous_ivs[key] >= Max(5000, base_iv - 5000)
                  /\ previous_ivs[key] <= base_iv + 5000
                  /\ options_data[i].iv = round2(previous_ivs[key])

\* a cycle at its end that failed: every channel send failed, an exception
\* was logged by the cycle's handler, or the fetch gave no data
FailedCycle == pc = "done" /\ cycle_log \in {"send_failed", "error", "no_data"}

\* C16: no exception leaves monitor_iv_spikes; after a cycle that failed a
\* later tick starts a cycle, and a cycle that started runs to its end; a
\* cycle whose sends all failed has them in the failure counter.
C16_ScanningSurvivesFailures ==
    /\ [](pc \in {"idle", "fetched", "sending", "done"})
    /\ [](pc = "done" /\ cycle_log = "send_failed" =>
            /\ CountOutcomes(attempts, {"false", "raise"}) = Len(channels)
            /\ failed_count >= Len(channels))
    /\ (FailedCycle ~> pc = "fetched")
    /\ (pc = "fetched" ~> pc = "done")

\* a cycle dispatching its alerts, run after a cycle that ended in the
\* exception handler of monitor_iv_spikes
C16_Witness ==
    /\ pc = "sending"
    /\ last_result = "raise"
    /\ lifespan = "starting"
    /\ calls = 0

\* a tick starts a cycle and fetch_option_data runs
FeedStep == pc = "idle" /\ pc' = "fetched"

\* C21: a step that is not the feed step of a cycle leaves the IV state map
\* as it is, and while the cycle goes on, the quotes of the cycle too.
C21_IVStateWrittenByFeedOnly ==
    [][~FeedStep =>
         /\ previous_ivs' = previous_ivs
         /\ pc' # "idle" => options_data' = options_data]_vars

\* detection ran on the quotes of a cycle and every channel was handed its
\* alerts, with the IV state map holding the contracts of the quotes
C21_Witness ==
    /\ pc = "done"
    /\ cycle_log = "sent_ok"
    /\ Len(handed) = Len(channels)
    /\ options_data # <<>>
    /\ \A i \in 1..Len(options_data) : KeyOfQuote(options_data[i]) \in DOMAIN previous_ivs

\* C22: filter_options_by_delta on a quote returns: it keeps the quote when
\* implied_volatility gave a number and abs(delta) is within [0.38, 0.42],
\* and skips it otherwise, a quote whose implied volatility is None included.
C22_DeltaBandAdmission ==
    (calc # <<>> /\ calc[1].fn = "implied_volatility") =>
        LET c == calc[1]
            delta == option_delta(c.S, c.K, c.T, c.r, c.iv, c.option_type, c.num.cdf)
            admitted == /\ c.iv # None
                        /\ DELTA_LOW <= Abs(delta)
                        /\ Abs(delta) <= DELTA_HIGH
        IN  c.caller = IF admitted THEN "kept" ELSE "skipped"

\* quotes at the ends of what fetch_option_data can produce: the lowest and
\* the highest configured strike, last_price 10 and 500, both option types
WiredQuotes ==
    { [symbol |-> "SENSEX", strike |-> strike, expiry |-> "2025-06-12",
       option_type |-> option_type, iv |-> 18000, last_price |-> last_price,
       price |-> last_price, volume |-> 100, oi |-> 1000] :
        strike \in {1600, 74900}, last_price \in {1000, 50000},
        option_type \in {"CE", "PE"} }

\* C23: detect_spikes returns the empty list on every cycle's quotes, no
\* cycle hands alerts to send_multiple_spike_alerts, and the notifier's
\* counters and calls change only in test_notifications.
C23_WiredLoopNeverDispatches ==
    /\ [](pc = "done" => spikes = <<>> /\ cycle_log \in {"no_data", "no_spikes"})
    /\ [](emitted = <<>> /\ handed = <<>>)
    /\ [](\A q \in WiredQuotes :
            detect_spikes(<<q>>) = [raised |-> FALSE, filtered |-> <<>>])
    /\ [][(sent_count' # sent_count \/ failed_count' # failed_count \/ calls' # calls) =>
            (lifespan = "starting" /\ lifespan' = "serving")]_vars

\* a cycle on quotes of which one moved by at least the threshold, after
\* detection: nothing is dispatched, and the counters hold what
\* test_notifications left
C23_Witness ==
    /\ Detected
    /\ \E i \in 1..Len(options_data) : Crossed(i)
    /\ cycle_log = "no_spikes"
    /\ lifespan = "serving"
    /\ calls = 1
    /\ sent_count + failed_count = Len(channels)

\* the value the contract holds is the one it held before the cycle, or one
\* walk step from it, or one walk step from a seed when it had none
AtMostOneStep(key) ==
    IF key \in DOMAIN prior
      THEN \/ previous_ivs[key] = prior[key]
           \/ WalkStep(key, prior[key], previous_ivs[key])
      ELSE \E d \in Draws : WalkStep(key, seed_iv(key[1], d.noise), previous_ivs[key])

\* C24: in the quote sequence of a fetch no contract appears twice, no
\* symbol has more than 10 x 2 x 2 quotes, and every entry of the IV state
\* map took at most one walk step in the cycle.
C24_OneObservationPerContract ==
    pc = "fetched" =>
        /\ \A i, j \in 1..Len(options_data) :
             i # j => KeyOfQuote(options_data[i]) # KeyOfQuote(options_data[j])
        /\ \A n \in 1..Len(SYMBOLS_TO_MONITOR) :
             Cardinality({ i \in 1..Len(options_data) :
                             options_data[i].symbol = SYMBOLS_TO_MONITOR[n] })
               <= MaxStrikesPerCycle * 2 * 2
        /\ \A key \in DOMAIN previous_ivs : AtMostOneStep(key)

\* a fetch of ten strikes out of a longer ladder, 40 quotes, that moved the
\* contracts it quoted and left alone one an earlier cycle had stored
C24_Witness ==
    /\ pc = "fetched"
    /\ Len(options_data) = MaxStrikesPerCycle * 2 * 2
    /\ \E key \in DOMAIN prior : key \notin planned /\ previous_ivs[key] = prior[key]
    /\ \E key \in DOMAIN prior : key \in planned /\ previous_ivs[key] # prior[key]

\* C25: a send_multiple_spike_alerts call with no alert returns true,
\* attempts no channel and leaves both counters; with one alert every
\* channel is handed the single-alert message of that alert, with two or
\* more the one summary message of them all; whatever the number of alerts,
\* each channel is attempted once at most.  (A step that leaves the channel
\* list is a send_multiple_spike_alerts call; emitted' is the list it got.)
C25_AlertBatching ==
    [][UNCHANGED channels =>
         LET alerts == emitted'
         IN  /\ alerts = <<>> =>
                  /\ last_result' = "true"
                  /\ attempts' = <<>> /\ handed' = <<>>
                  /\ UNCHANGED <<sent_count, failed_count, attempt_count>>
             /\ Len(alerts) = 1 =>
                  \A i \in 1..Len(handed') :
                      handed'[i].message = format_spike_message(alerts[1])
             /\ Len(alerts) >= 2 =>
                  \A i \in 1..Len(handed') :
                      /\ handed'[i].message.kind = "summary"
                      /\ handed'[i].message.count = Len(alerts)
             /\ Len(attempts') <= Len(channels)
             /\ Len(handed') = Len(attempts')
             /\ \A i, j \in 1..Len(attempts') :
                  i # j => attempts'[i].channel # attempts'[j].channel
             /\ (sent_count' - sent_count) + (failed_count' - failed_count)
                  <= Len(channels)]_vars

\* a call with three alerts on three channels: each was handed the one
\* summary message, once
C25_Witness ==
    /\ Len(emitted) = 3
    /\ Len(channels) = 3
    /\ Len(handed) = 3
    /\ \A i \in 1..3 : handed[i].channel = i /\ handed[i].message.kind = "summary"
    /\ sent_count + failed_count = 3

====
